---- MODULE Spec2Model ----
(***************************************************************************)
(* Model of src/app.py: a Flask service that supervises a Telegram polling *)
(* worker thread.  The module-level globals are the shared state; the      *)
(* worker thread body (bot_worker), the start-up routine (initialize_bot), *)
(* the restart endpoint (restart_bot) and the two status endpoints         *)
(* (health_check, bot_status) are processes whose steps are the reads and  *)
(* writes of those globals, in program order.                              *)
(*                                                                         *)
(* Encoding of Python values:                                              *)
(*   None                  -> 0  (telegram_app, bot_thread, bot_start_time,*)
(*                                last_error)                              *)
(*   Application object    -> its construction index 1..MaxApps            *)
(*   Thread object         -> its creation index 1..MaxThreads             *)
(*   str(e) of worker t    -> t   (each exception has its own text)        *)
(*   str(e) in restart_bot -> RestartError                                 *)
(***************************************************************************)
EXTENDS Integers, FiniteSets, Sequences, TLC

\* ------------------------------------------------------------------ bounds
MaxRestarts == 2
MaxTime == 2

\* one worker thread and one Application per start: initialize_bot's and one
\* for each restart request
MaxThreads == MaxRestarts + 1
MaxApps == MaxRestarts + 1
Threads == 1..MaxThreads
Apps == 1..MaxApps
Requests == 1..MaxRestarts

None == 0
RestartError == 0 - 1

VARIABLES
    telegram_app,     \* global: current Application (None or app id)
    bot_thread,       \* global: current worker Thread (None or thread id)
    bot_running,      \* global flag
    bot_start_time,   \* global: None or time.time() at worker start
    last_error,       \* global: None or error text
    now,              \* time.time()
    napps,            \* number of Application objects built so far
    nthreads,         \* number of Thread objects started so far
    appRunning,       \* Application.running, per Application
    appStop,          \* stop signal delivered to an Application
    wpc,              \* per worker thread: position in bot_worker
    wapp,             \* per worker thread: Application it runs polling on
    wexc,             \* per worker thread: run_polling raised (line 163)
    ipc,              \* position of initialize_bot
    ithread,          \* initialize_bot: value returned by run_telegram_bot
    ires,             \* initialize_bot: what it logged
    rpc,              \* per request: position in restart_bot
    rthread,          \* per request: value returned by run_telegram_bot
    rres,             \* per request: response of restart_bot
    rtimeout,         \* per request: join(timeout=10) expired
    spc,              \* position of the status request (health / bot_status)
    snap,             \* the response being assembled by the status request
    rfault,           \* per request: it arrived with bot_running False and
                      \* last_error set
    rstop,            \* per request: Application it called stop() on
    rapp,             \* per request: Application built by its setup call
    wown,             \* per worker thread: Application built by the start
                      \* (initialize_bot / restart_bot call) that created it
    groq_client,      \* global: a Groq client was configured (lines 31-37)
    mpc,              \* position of handle_message for the update in hand
    mmsg,             \* update.message is present
    mreply,           \* the reply the user received for this update
    mfailed           \* a call inside handle_message raised

globals == <<telegram_app, bot_thread, bot_running, bot_start_time, last_error>>
collab  == <<napps, nthreads, appRunning, appStop>>
wvars   == <<wpc, wapp, wexc>>
ivars   == <<ipc, ithread, ires>>
rvars   == <<rpc, rthread, rres, rtimeout>>
svars   == <<spc, snap>>
hist    == <<rfault, rstop, rapp, wown>>
mvars   == <<groq_client, mpc, mmsg, mreply, mfailed>>
vars    == <<globals, now, collab, wvars, ivars, rvars, svars, hist, mvars>>

EmptySnap == [kind |-> "none", running |-> FALSE, started |-> FALSE,
              uptime |-> 0, last_error |-> None, thread_alive |-> FALSE,
              app_running |-> FALSE, thread_name |-> None]

\* Thread.is_alive(): started and its target has not returned yet.
is_alive(t) == wpc[t] \notin {"unborn", "done"}

\* State after the module-level assignments (lines 40-44), before
\* initialize_bot runs; configured: GROQ_API_KEY is set (lines 31-37).
ModuleLoaded(configured) ==
    /\ telegram_app = None
    /\ bot_thread = None
    /\ bot_running = FALSE
    /\ bot_start_time = None
    /\ last_error = None
    /\ now = 1
    /\ napps = 0
    /\ nthreads = 0
    /\ appRunning = [a \in Apps |-> FALSE]
    /\ appStop = [a \in Apps |-> FALSE]
    /\ wpc = [t \in Threads |-> "unborn"]
    /\ wapp = [t \in Threads |-> None]
    /\ wexc = [t \in Threads |-> FALSE]
    /\ ipc = "i_setup"
    /\ ithread = None
    /\ ires = "none"
    /\ rpc = [r \in Requests |-> "idle"]
    /\ rthread = [r \in Requests |-> None]
    /\ rres = [r \in Requests |-> "none"]
    /\ rtimeout = [r \in Requests |-> FALSE]
    /\ spc = "idle"
    /\ snap = EmptySnap
    /\ rfault = [r \in Requests |-> FALSE]
    /\ rstop = [r \in Requests |-> None]
    /\ rapp = [r \in Requests |-> None]
    /\ wown = [t \in Threads |-> None]
    /\ groq_client = configured
    /\ mpc = "idle"
    /\ mmsg = FALSE
    /\ mreply = "none"
    /\ mfailed = FALSE

\* the deployment the supervisor is studied in
Init == ModuleLoaded(TRUE)

\* ------------------------------------------------------------ time.time()
Tick ==
    /\ now < MaxTime
    /\ now' = now + 1
    /\ UNCHANGED <<globals, collab, wvars, ivars, rvars, svars, hist, mvars>>

\* ------------------------------------------------- setup_telegram_bot()
\* ok: Application.builder().token(...).build() returned, the object was
\* assigned to the global and the function returned it; otherwise build()
\* raised, the global keeps its value and the function returned None.
setup_telegram_bot(ok) ==
    IF ok
      THEN /\ napps' = napps + 1
           /\ telegram_app' = napps + 1
      ELSE UNCHANGED <<napps, telegram_app>>

\* ---------------------------------------------------- run_telegram_bot()
\* threading.Thread(target=bot_worker, ...).start(); the new thread is
\* about to execute line 152.
run_telegram_bot(t, built) ==
    /\ t = nthreads + 1
    /\ nthreads' = t
    /\ wpc' = [wpc EXCEPT ![t] = "w_set_running"]
    /\ wown' = [wown EXCEPT ![t] = built]

\* ------------------------------------------------------------ bot_worker
\* line 152
WorkerSetRunning(t) ==
    /\ wpc[t] = "w_set_running"
    /\ bot_running' = TRUE
    /\ wpc' = [wpc EXCEPT ![t] = "w_set_start_time"]
    /\ UNCHANGED <<telegram_app, bot_thread, bot_start_time, last_error, now,
                   collab, wapp, wexc, ivars, rvars, svars, hist, mvars>>

\* line 153
WorkerSetStartTime(t) ==
    /\ wpc[t] = "w_set_start_time"
    /\ bot_start_time' = now
    /\ wpc' = [wpc EXCEPT ![t] = "w_clear_error"]
    /\ UNCHANGED <<telegram_app, bot_thread, bot_running, last_error, now,
                   collab, wapp, wexc, ivars, rvars, svars, hist, mvars>>

\* line 154
WorkerClearError(t) ==
    /\ wpc[t] = "w_clear_error"
    /\ last_error' = None
    /\ wpc' = [wpc EXCEPT ![t] = "w_run_polling"]
    /\ UNCHANGED <<telegram_app, bot_thread, bot_running, bot_start_time, now,
                   collab, wapp, wexc, ivars, rvars, svars, hist, mvars>>

\* line 157: the global telegram_app is read here, when run_polling is called
WorkerRunPolling(t) ==
    /\ wpc[t] = "w_run_polling"
    /\ telegram_app # None
    /\ wapp' = [wapp EXCEPT ![t] = telegram_app]
    /\ appRunning' = [appRunning EXCEPT ![telegram_app] = TRUE]
    /\ wpc' = [wpc EXCEPT ![t] = "w_polling"]
    /\ UNCHANGED <<globals, now, napps, nthreads, appStop, wexc,
                   ivars, rvars, svars, hist, mvars>>

\* run_polling returns: only after the Application was told to stop
WorkerPollingReturns(t) ==
    /\ wpc[t] = "w_polling"
    /\ appStop[wapp[t]]
    /\ appRunning' = [appRunning EXCEPT ![wapp[t]] = FALSE]
    /\ wpc' = [wpc EXCEPT ![t] = "w_finally"]
    /\ UNCHANGED <<globals, now, napps, nthreads, appStop, wapp, wexc,
                   ivars, rvars, svars, hist, mvars>>

\* run_polling raises (lines 163-164)
WorkerPollingRaises(t) ==
    /\ wpc[t] = "w_polling"
    /\ appRunning' = [appRunning EXCEPT ![wapp[t]] = FALSE]
    /\ wpc' = [wpc EXCEPT ![t] = "w_except_running"]
    /\ wexc' = [wexc EXCEPT ![t] = TRUE]
    /\ UNCHANGED <<globals, now, napps, nthreads, appStop, wapp,
                   ivars, rvars, svars, hist, mvars>>

\* line 165
WorkerExceptRunning(t) ==
    /\ wpc[t] = "w_except_running"
    /\ bot_running' = FALSE
    /\ wpc' = [wpc EXCEPT ![t] = "w_except_error"]
    /\ UNCHANGED <<telegram_app, bot_thread, bot_start_time, last_error, now,
                   collab, wapp, wexc, ivars, rvars, svars, hist, mvars>>

\* line 166: last_error = str(e)
WorkerExceptError(t) ==
    /\ wpc[t] = "w_except_error"
    /\ last_error' = t
    /\ wpc' = [wpc EXCEPT ![t] = "w_finally"]
    /\ UNCHANGED <<telegram_app, bot_thread, bot_running, bot_start_time, now,
                   collab, wapp, wexc, ivars, rvars, svars, hist, mvars>>

\* lines 167-169
WorkerFinally(t) ==
    /\ wpc[t] = "w_finally"
    /\ bot_running' = FALSE
    /\ wpc' = [wpc EXCEPT ![t] = "done"]
    /\ UNCHANGED <<telegram_app, bot_thread, bot_start_time, last_error, now,
                   collab, wapp, wexc, ivars, rvars, svars, hist, mvars>>

bot_worker(t) ==
    \/ WorkerSetRunning(t)
    \/ WorkerSetStartTime(t)
    \/ WorkerClearError(t)
    \/ WorkerRunPolling(t)
    \/ WorkerPollingReturns(t)
    \/ WorkerPollingRaises(t)
    \/ WorkerExceptRunning(t)
    \/ WorkerExceptError(t)
    \/ WorkerFinally(t)

\* -------------------------------------------------------- initialize_bot
\* lines 310 and 322-323
InitSetup ==
    /\ ipc = "i_setup"
    /\ \E ok \in BOOLEAN :
         /\ setup_telegram_bot(ok)
         /\ ipc' = IF ok THEN "i_start" ELSE "done"
         /\ ires' = IF ok THEN ires ELSE "setup_failed"
    /\ UNCHANGED <<bot_thread, bot_running, bot_start_time, last_error, now,
                   nthreads, appRunning, appStop, wvars, ithread, rvars, svars, hist, mvars>>

\* line 311, right-hand side; thread.start() may raise (lines 325-326)
InitStart ==
    /\ ipc = "i_start"
    /\ \/ /\ run_telegram_bot(nthreads + 1, telegram_app)
          /\ ithread' = nthreads + 1
          /\ ipc' = "i_assign"
          /\ ires' = ires
       \/ /\ ipc' = "done"
          /\ ires' = "exception"
          /\ UNCHANGED <<nthreads, wpc, ithread, wown>>
    /\ UNCHANGED <<globals, now, napps, appRunning, appStop, wapp, wexc,
                   rvars, svars, rfault, rstop,
                   rapp, mvars>>

\* line 311, assignment to the global
InitAssign ==
    /\ ipc = "i_assign"
    /\ bot_thread' = ithread
    /\ ithread' = None
    /\ ipc' = "i_check"
    /\ UNCHANGED <<telegram_app, bot_running, bot_start_time, last_error, now,
                   collab, wvars, ires, rvars, svars, hist, mvars>>

\* lines 315-321
InitCheck ==
    /\ ipc = "i_check"
    /\ ires' = IF bot_thread # None /\ is_alive(bot_thread) /\ bot_running
                 THEN "started" ELSE "failed"
    /\ ipc' = "done"
    /\ UNCHANGED <<globals, now, collab, wvars, ithread, rvars, svars, hist, mvars>>

initialize_bot == InitSetup \/ InitStart \/ InitAssign \/ InitCheck

\* ----------------------------------------------------------- restart_bot
\* A POST /restart_bot request is dispatched to a handler thread; Flask
\* serves requests only after initialize_bot has returned (lines 328-337).
\* Requests are numbered in the order of their arrival.
\* lines 239-249: telegram_app.stop() either delivers the stop signal to
\* the Application or has no effect on it
RestartStop(r) ==
    /\ ipc = "done"
    /\ rpc[r] = "idle"
    /\ \A q \in Requests : q < r => rpc[q] # "idle"
    /\ IF telegram_app # None /\ appRunning[telegram_app]
         THEN \E delivered \in BOOLEAN :
                appStop' = IF delivered
                             THEN [appStop EXCEPT ![telegram_app] = TRUE]
                             ELSE appStop
         ELSE appStop' = appStop
    /\ rpc' = [rpc EXCEPT ![r] = "r_join"]
    /\ rfault' = [rfault EXCEPT ![r] = ~bot_running /\ last_error # None]
    /\ rstop' = [rstop EXCEPT
                   ![r] = IF telegram_app # None /\ appRunning[telegram_app]
                            THEN telegram_app ELSE None]
    /\ UNCHANGED <<globals, now, napps, nthreads, appRunning, wvars, ivars,
                   rthread, rres, rtimeout, svars, rapp, wown, mvars>>

\* lines 252-256: join(timeout=10) returns when the thread has finished or
\* when the timeout expires with the thread still alive
RestartJoin(r) ==
    /\ rpc[r] = "r_join"
    /\ rtimeout' = [rtimeout EXCEPT
                      ![r] = bot_thread # None /\ is_alive(bot_thread)]
    /\ rpc' = [rpc EXCEPT ![r] = "r_reset_running"]
    /\ UNCHANGED <<globals, now, collab, wvars, ivars, rthread, rres, svars, hist, mvars>>

\* line 259
RestartResetRunning(r) ==
    /\ rpc[r] = "r_reset_running"
    /\ bot_running' = FALSE
    /\ rpc' = [rpc EXCEPT ![r] = "r_reset_error"]
    /\ UNCHANGED <<telegram_app, bot_thread, bot_start_time, last_error, now,
                   collab, wvars, ivars, rthread, rres, rtimeout, svars, hist, mvars>>

\* line 260
RestartResetError(r) ==
    /\ rpc[r] = "r_reset_error"
    /\ last_error' = None
    /\ rpc' = [rpc EXCEPT ![r] = "r_setup"]
    /\ UNCHANGED <<telegram_app, bot_thread, bot_running, bot_start_time, now,
                   collab, wvars, ivars, rthread, rres, rtimeout, svars, hist, mvars>>

\* lines 264 and 273-274
RestartSetup(r) ==
    /\ rpc[r] = "r_setup"
    /\ \E ok \in BOOLEAN :
         /\ setup_telegram_bot(ok)
         /\ rpc' = [rpc EXCEPT ![r] = IF ok THEN "r_start" ELSE "done"]
         /\ rres' = [rres EXCEPT ![r] = IF ok THEN "none" ELSE "setup_failed"]
         /\ rtimeout' = [rtimeout EXCEPT ![r] = ok /\ rtimeout[r]]
         /\ rfault' = [rfault EXCEPT ![r] = ok /\ rfault[r]]
         /\ rstop' = [rstop EXCEPT ![r] = IF ok THEN rstop[r] ELSE None]
         /\ rapp' = [rapp EXCEPT ![r] = IF ok THEN napps + 1 ELSE None]
    /\ UNCHANGED <<bot_thread, bot_running, bot_start_time, last_error, now,
                   nthreads, appRunning, appStop, wvars, ivars, rthread,
                   svars, wown, mvars>>

\* restart_bot without the handler of lines 276-279: an exception of
\* thread.start() leaves the request without a result
RestartStart_Unhandled(r) ==
    /\ rpc[r] = "r_start"
    /\ \/ /\ run_telegram_bot(nthreads + 1, rapp[r])
          /\ rthread' = [rthread EXCEPT ![r] = nthreads + 1]
          /\ rpc' = [rpc EXCEPT ![r] = "r_assign"]
          /\ UNCHANGED <<rtimeout, rfault, rstop>>
       \/ /\ rtimeout' = [rtimeout EXCEPT ![r] = FALSE]
          /\ rfault' = [rfault EXCEPT ![r] = FALSE]
          /\ rstop' = [rstop EXCEPT ![r] = None]
          /\ rpc' = [rpc EXCEPT ![r] = "done"]
          /\ UNCHANGED <<nthreads, wpc, rthread, wown>>
    /\ rapp' = [rapp EXCEPT ![r] = None]
    /\ UNCHANGED <<telegram_app, bot_thread, bot_running, bot_start_time,
                   last_error, now, napps, appRunning, appStop, wapp, wexc,
                   ivars, rres, svars, mvars>>

\* line 266, right-hand side; when thread.start() raises, the handler of
\* lines 276-279 records the error and answers 500
RestartStart(r) ==
    /\ rpc[r] = "r_start"
    /\ \/ /\ run_telegram_bot(nthreads + 1, rapp[r])
          /\ rthread' = [rthread EXCEPT ![r] = nthreads + 1]
          /\ rpc' = [rpc EXCEPT ![r] = "r_assign"]
          /\ UNCHANGED <<last_error, rres, rtimeout, rfault, rstop>>
       \/ /\ last_error' = RestartError
          /\ rres' = [rres EXCEPT ![r] = "error"]
          /\ rtimeout' = [rtimeout EXCEPT ![r] = FALSE]
          /\ rfault' = [rfault EXCEPT ![r] = FALSE]
          /\ rstop' = [rstop EXCEPT ![r] = None]
          /\ rpc' = [rpc EXCEPT ![r] = "done"]
          /\ UNCHANGED <<nthreads, wpc, rthread, wown>>
    /\ rapp' = [rapp EXCEPT ![r] = None]
    /\ UNCHANGED <<telegram_app, bot_thread, bot_running, bot_start_time, now,
                   napps, appRunning, appStop, wapp, wexc, ivars, svars,
                   mvars>>

\* line 266, assignment to the global
RestartAssign(r) ==
    /\ rpc[r] = "r_assign"
    /\ bot_thread' = rthread[r]
    /\ rpc' = [rpc EXCEPT ![r] = "r_return"]
    /\ UNCHANGED <<telegram_app, bot_running, bot_start_time, last_error, now,
                   collab, wvars, ivars, rthread, rres, rtimeout, svars, hist, mvars>>

\* lines 267-272; the handler's locals die with it
RestartReturn(r) ==
    /\ rpc[r] = "r_return"
    /\ rres' = [rres EXCEPT ![r] = "restarted"]
    /\ rthread' = [rthread EXCEPT ![r] = None]
    /\ rtimeout' = [rtimeout EXCEPT ![r] = FALSE]
    /\ rpc' = [rpc EXCEPT ![r] = "done"]
    /\ rfault' = [rfault EXCEPT ![r] = FALSE]
    /\ rstop' = [rstop EXCEPT ![r] = None]
    /\ UNCHANGED <<globals, now, collab, wvars, ivars, svars, rapp, wown,
                   mvars>>

restart_bot(r) ==
    \/ RestartStop(r)
    \/ RestartJoin(r)
    \/ RestartResetRunning(r)
    \/ RestartResetError(r)
    \/ RestartSetup(r)
    \/ RestartStart(r)
    \/ RestartAssign(r)
    \/ RestartReturn(r)

\* a restart request is being handled
InFlight(r) == rpc[r] \notin {"idle", "done"}

\* ---------------------------------------------------------- health_check
\* lines 195 and 217: int(time.time() - bot_start_time) if bot_start_time
\* else 0
uptime_seconds == IF bot_start_time # None THEN now - bot_start_time ELSE 0

\* line 194, first read of the response being built
HealthReadRunning ==
    /\ ipc = "done"
    /\ spc = "idle"
    /\ snap' = [EmptySnap EXCEPT !.kind = "health", !.running = bot_running]
    /\ spc' = "h_uptime"
    /\ UNCHANGED <<globals, now, collab, wvars, ivars, rvars, hist, mvars>>

\* line 195
HealthReadUptime ==
    /\ spc = "h_uptime"
    /\ snap' = [snap EXCEPT !.uptime = uptime_seconds,
                            !.started = (bot_start_time # None)]
    /\ spc' = "h_error"
    /\ UNCHANGED <<globals, now, collab, wvars, ivars, rvars, hist, mvars>>

\* line 196
HealthReadError ==
    /\ spc = "h_error"
    /\ snap' = [snap EXCEPT !.last_error = last_error]
    /\ spc' = "respond"
    /\ UNCHANGED <<globals, now, collab, wvars, ivars, rvars, hist, mvars>>

\* line 191: the response leaves the handler
HealthRespond ==
    /\ spc = "respond"
    /\ snap.kind = "health"
    /\ snap' = EmptySnap
    /\ spc' = "idle"
    /\ UNCHANGED <<globals, now, collab, wvars, ivars, rvars, hist, mvars>>

health_check ==
    HealthReadRunning \/ HealthReadUptime \/ HealthReadError \/ HealthRespond

\* ------------------------------------------------------------ bot_status
\* line 205, first read of the response being built
StatusReadAlive ==
    /\ ipc = "done"
    /\ spc = "idle"
    /\ snap' = [EmptySnap EXCEPT
                  !.kind = "bot_status",
                  !.thread_alive = (bot_thread # None /\ is_alive(bot_thread))]
    /\ spc' = "b_app"
    /\ UNCHANGED <<globals, now, collab, wvars, ivars, rvars, hist, mvars>>

\* lines 208-214
StatusReadApp ==
    /\ spc = "b_app"
    /\ snap' = [snap EXCEPT
                  !.app_running = (telegram_app # None
                                     /\ appRunning[telegram_app])]
    /\ spc' = "b_uptime"
    /\ UNCHANGED <<globals, now, collab, wvars, ivars, rvars, hist, mvars>>

\* line 217
StatusReadUptime ==
    /\ spc = "b_uptime"
    /\ snap' = [snap EXCEPT !.uptime = uptime_seconds,
                            !.started = (bot_start_time # None)]
    /\ spc' = "b_running"
    /\ UNCHANGED <<globals, now, collab, wvars, ivars, rvars, hist, mvars>>

\* line 220
StatusReadRunning ==
    /\ spc = "b_running"
    /\ snap' = [snap EXCEPT !.running = bot_running]
    /\ spc' = "b_name"
    /\ UNCHANGED <<globals, now, collab, wvars, ivars, rvars, hist, mvars>>

\* line 225
StatusReadName ==
    /\ spc = "b_name"
    /\ snap' = [snap EXCEPT !.thread_name = bot_thread]
    /\ spc' = "b_error"
    /\ UNCHANGED <<globals, now, collab, wvars, ivars, rvars, hist, mvars>>

\* line 226
StatusReadError ==
    /\ spc = "b_error"
    /\ snap' = [snap EXCEPT !.last_error = last_error]
    /\ spc' = "respond"
    /\ UNCHANGED <<globals, now, collab, wvars, ivars, rvars, hist, mvars>>

\* lines 230-231: the response leaves the handler
StatusRespond ==
    /\ spc = "respond"
    /\ snap.kind = "bot_status"
    /\ snap' = EmptySnap
    /\ spc' = "idle"
    /\ UNCHANGED <<globals, now, collab, wvars, ivars, rvars, hist, mvars>>

bot_status ==
    \/ StatusReadAlive
    \/ StatusReadApp
    \/ StatusReadUptime
    \/ StatusReadRunning
    \/ StatusReadName
    \/ StatusReadError
    \/ StatusRespond

\* -------------------------------------------------------- handle_message
\* The Application dispatches a text update to handle_message from inside
\* run_polling; update.message is absent for an edited message or a channel
\* post.
MessageDispatch ==
    /\ \E t \in Threads : wpc[t] = "w_polling"
    /\ mpc \in {"idle", "returned", "escaped"}
    /\ \E present \in BOOLEAN : mmsg' = present
    /\ mpc' = "m_text"
    /\ mreply' = "none"
    /\ mfailed' = FALSE
    /\ UNCHANGED <<globals, now, collab, wvars, ivars, rvars, svars, hist,
                   groq_client>>

\* lines 96-98: update.message.text raises when there is no message; without
\* a Groq client the handler returns without a reply
MessageReadText ==
    /\ mpc = "m_text"
    /\ mpc' = IF ~mmsg THEN "m_fallback"
              ELSE IF groq_client THEN "m_complete" ELSE "returned"
    /\ mfailed' = ~mmsg
    /\ UNCHANGED <<globals, now, collab, wvars, ivars, rvars, svars, hist,
                   groq_client, mmsg, mreply>>

\* lines 100-108: the completion call returns or raises
MessageComplete ==
    /\ mpc = "m_complete"
    /\ \E ok \in BOOLEAN :
         /\ mpc' = IF ok THEN "m_reply" ELSE "m_groq_fallback"
         /\ mfailed' = ~ok
    /\ UNCHANGED <<globals, now, collab, wvars, ivars, rvars, svars, hist,
                   groq_client, mmsg, mreply>>

\* line 109: reply_text with the completion is sent or raises
MessageReply ==
    /\ mpc = "m_reply"
    /\ \E ok \in BOOLEAN :
         /\ mpc' = IF ok THEN "returned" ELSE "m_groq_fallback"
         /\ mreply' = IF ok THEN "completion" ELSE mreply
         /\ mfailed' = ~ok
    /\ UNCHANGED <<globals, now, collab, wvars, ivars, rvars, svars, hist,
                   groq_client, mmsg>>

\* lines 110-112: the inner handler's reply_text is sent or raises
MessageGroqFallback ==
    /\ mpc = "m_groq_fallback"
    /\ \E ok \in BOOLEAN :
         /\ mpc' = IF ok THEN "returned" ELSE "m_fallback"
         /\ mreply' = IF ok THEN "groq_error" ELSE mreply
    /\ UNCHANGED <<globals, now, collab, wvars, ivars, rvars, svars, hist,
                   groq_client, mmsg, mfailed>>

\* lines 113-115: the outer handler's reply_text is sent, or raises and the
\* exception leaves handle_message (it always raises without a message)
MessageFallback ==
    /\ mpc = "m_fallback"
    /\ \E ok \in BOOLEAN :
         /\ mpc' = IF ok /\ mmsg THEN "returned" ELSE "escaped"
         /\ mreply' = IF ok /\ mmsg THEN "sorry" ELSE mreply
    /\ UNCHANGED <<globals, now, collab, wvars, ivars, rvars, svars, hist,
                   groq_client, mmsg, mfailed>>

handle_message ==
    \/ MessageDispatch
    \/ MessageReadText
    \/ MessageComplete
    \/ MessageReply
    \/ MessageGroqFallback
    \/ MessageFallback

\* --------------------------------------------------------- specifications
\* The supervisor: start-up, the worker threads and the restart requests,
\* which Flask serves on concurrent handler threads.
Next ==
    \/ Tick
    \/ initialize_bot
    \/ \E t \in Threads : bot_worker(t)
    \/ \E r \in Requests : restart_bot(r)

Spec == Init /\ [][Next]_vars

\* The operator issues restart requests one at a time: a request is sent
\* only after the previous one was answered.
RestartStopAlone(r) ==
    /\ \A q \in Requests : ~InFlight(q)
    /\ RestartStop(r)

RestartAfterStop(r) ==
    \/ RestartJoin(r)
    \/ RestartResetRunning(r)
    \/ RestartResetError(r)
    \/ RestartSetup(r)
    \/ RestartStart(r)
    \/ RestartAssign(r)
    \/ RestartReturn(r)

NextSeq ==
    \/ Tick
    \/ initialize_bot
    \/ \E t \in Threads : bot_worker(t)
    \/ \E r \in Requests : RestartStopAlone(r)
    \/ \E r \in Requests : RestartAfterStop(r)

SpecSeq == Init /\ [][NextSeq]_vars

\* Scheduling: every started thread keeps being scheduled, so a worker
\* thread takes its next step (a fault of run_polling is never owed) and a
\* request handler runs to its response; join(timeout=10) always returns.
WorkerProgress(t) ==
    \/ WorkerSetRunning(t)
    \/ WorkerSetStartTime(t)
    \/ WorkerClearError(t)
    \/ WorkerRunPolling(t)
    \/ WorkerPollingReturns(t)
    \/ WorkerExceptRunning(t)
    \/ WorkerExceptError(t)
    \/ WorkerFinally(t)

FairSpecSeq ==
    /\ Init
    /\ [][NextSeq]_vars
    /\ WF_vars(initialize_bot)
    /\ \A t \in Threads : WF_vars(WorkerProgress(t))
    /\ \A r \in Requests : WF_vars(RestartAfterStop(r))

\* The status endpoints polled while the supervisor starts the worker and
\* serves the first restart request.
FirstRequest == CHOOSE r \in Requests : \A q \in Requests : r <= q

NextStatus ==
    \/ Tick
    \/ initialize_bot
    \/ \E t \in Threads : bot_worker(t)
    \/ restart_bot(FirstRequest)
    \/ health_check
    \/ bot_status

SpecStatus == Init /\ [][NextStatus]_vars

\* Message dispatch inside the worker, with or without a Groq client, while
\* the supervisor starts the worker and serves the first restart request.
MessageInit == \E configured \in BOOLEAN : ModuleLoaded(configured)

NextMessage ==
    \/ initialize_bot
    \/ \E t \in Threads : bot_worker(t)
    \/ restart_bot(FirstRequest)
    \/ handle_message

SpecMessage == MessageInit /\ [][NextMessage]_vars

TypeOK ==
    /\ telegram_app \in 0..MaxApps
    /\ bot_thread \in 0..MaxThreads
    /\ bot_running \in BOOLEAN
    /\ bot_start_time \in 0..MaxTime
    /\ last_error \in {RestartError} \cup (0..MaxThreads)
    /\ now \in 1..MaxTime
    /\ napps \in 0..MaxApps
    /\ nthreads \in 0..MaxThreads

\* ------------------------------------------------------------ vocabulary
LiveWorkers == {t \in Threads : is_alive(t)}

NoRestartInFlight == \A r \in Requests : ~InFlight(r)

\* the worker has executed line 152 and neither left run_polling nor failed
Active(t) ==
    wpc[t] \in {"w_set_start_time", "w_clear_error", "w_run_polling",
                "w_polling"}

\* a newer generation has been started and is active
Superseded(t) == \E u \in Threads : u > t /\ Active(u)

\* restart_bot delivered the stop signal to the Application the worker polls
StopRequested(t) == wapp[t] # None /\ appStop[wapp[t]]

\* the supervisor's record of a fault of worker t: its error text, and
\* bot_running False once the worker has terminated
Recorded(t) ==
    /\ last_error = t
    /\ wpc[t] = "done" => ~bot_running

\* t is the current worker, its polling loop raised without a stop request,
\* line 166 has run and no restart is being handled
CurrentFaulted(t) ==
    /\ bot_thread = t
    /\ wexc[t]
    /\ ~StopRequested(t)
    /\ wpc[t] \in {"w_finally", "done"}
    /\ NoRestartInFlight

\* ---------------------------------------------------------------- claims
\* C1: at most one worker thread is alive at any instant, whatever the
\* sequence of initialize_bot and restart_bot calls (join timeouts included).
C1_AtMostOneLiveWorker == Cardinality(LiveWorkers) <= 1

\* C2: the termination (except / finally block) of a superseded worker never
\* flips bot_running from True to False while a newer worker is active.
C2_StaleTerminationKeepsRunning ==
    [][\A t \in Threads :
         (Superseded(t) /\ (WorkerExceptRunning(t) \/ WorkerFinally(t)))
            => ~(bot_running /\ ~bot_running')]_vars

\* C3: whenever bot_running is True, bot_thread refers to a worker thread
\* and bot_start_time is set.
C3_RunningImpliesHandleAndStart ==
    bot_running => (bot_thread # None /\ bot_start_time # None)

\* C4: start/stop/restart transitions are serialized: at most one
\* restart_bot is in flight at a time, and none overlaps initialize_bot.
C4_TransitionsSerialized ==
    /\ Cardinality({r \in Requests : InFlight(r)}) <= 1
    /\ (~NoRestartInFlight) => ipc = "done"

\* C5: a step of a worker whose stop was requested by restart_bot never
\* records an error: last_error is not set by it.
C5_NoErrorAfterRequestedStop ==
    [][\A t \in Threads :
         (StopRequested(t) /\ wpc'[t] # wpc[t])
            => (last_error' = last_error \/ last_error' = None)]_vars

\* C6: once the current worker has recorded a fault that no stop request
\* preceded, the record (last_error its text, bot_running False when the
\* worker has terminated) stays and no new worker is started, as long as no
\* restart request arrives.
C6_FaultRecordedUntilRestart ==
    [][\A t \in Threads :
         (CurrentFaulted(t) /\ Recorded(t) /\ NoRestartInFlight')
            => (Recorded(t)' /\ nthreads' = nthreads)]_vars

\* C7: a restart_bot whose setup fails answers with an error, leaves
\* last_error set and bot_running False, and starts no worker thread.
C7_SetupErrorRecorded ==
    [][\A r \in Requests :
         (RestartSetup(r) /\ rres'[r] = "setup_failed")
            => (last_error' # None /\ ~bot_running'
                  /\ nthreads' = nthreads)]_vars

\* C8: every status response (health_check, bot_status) shows running and
\* startedAt in agreement: running is true exactly when a start time was
\* seen.
C8_ConsistentSnapshot ==
    spc = "respond" => (snap.running <=> snap.started)

\* C9: with restart requests issued one at a time, once no operation is in
\* progress and every worker has settled (polling with no stop pending, or
\* finished), bot_running is True exactly when the worker thread is alive.
Settled ==
    /\ ipc = "done"
    /\ NoRestartInFlight
    /\ \A t \in Threads :
         \/ wpc[t] \in {"unborn", "done"}
         \/ wpc[t] = "w_polling" /\ ~StopRequested(t)

C9_RunningMatchesLiveness ==
    Settled => (bot_running <=> (bot_thread # None /\ is_alive(bot_thread)))

\* C10: the status endpoints report an uptime of 0 whenever they compute it
\* in a state where bot_running is False.
C10_UptimeOnlyWhileRunning ==
    [][((HealthReadUptime \/ StatusReadUptime) /\ ~bot_running)
          => snap'.uptime = 0]_vars

\* C11: a restart_bot request that arrived with bot_running False and
\* last_error set, whose setup succeeded and which has just started its
\* worker thread, leads to a state with bot_running True and last_error None.
JustStarted(r) ==
    /\ rpc[r] = "r_assign"
    /\ wpc[rthread[r]] = "w_set_running"

C11_RestartAfterFaultRecovers ==
    \A r \in Requests :
      (rfault[r] /\ JustStarted(r)) ~> (bot_running /\ last_error = None)

\* C12: whatever the completion call and the reply calls of handle_message
\* do, no exception leaves handle_message, a failure ends in a fallback reply
\* to the user, and bot_running and last_error are left as they were.
C12_MessageErrorsContained ==
    [][handle_message =>
         /\ mpc' # "escaped"
         /\ (mpc' = "returned" /\ mfailed')
               => mreply' \in {"groq_error", "sorry"}
         /\ bot_running' = bot_running
         /\ last_error' = last_error]_vars

\* C13: every restart_bot invocation ends with a structured result (success
\* or error) and is never stuck, whatever failed in its stop, setup or start
\* step; a worker whose polling raised runs to its own end, and status and
\* restart requests are still accepted afterwards.
Results == {"restarted", "setup_failed", "error"}

C13_AlwaysStructuredResult ==
    /\ \A r \in Requests :
         /\ rpc[r] = "done" => rres[r] \in Results
         /\ InFlight(r) => ENABLED RestartAfterStop(r)
    /\ \A t \in Threads :
         (wexc[t] /\ is_alive(t)) => ENABLED bot_worker(t)
    /\ ((\E t \in Threads : wexc[t]) /\ ipc = "done") =>
         /\ ENABLED HealthReadRunning
         /\ ENABLED StatusReadAlive
         /\ \A r \in Requests :
              (rpc[r] = "idle" /\ \A q \in Requests : q < r => rpc[q] # "idle")
                 => ENABLED RestartStop(r)

\* a restart answered with an error after a worker fault, and one answered
\* with success
C13_Witness ==
    /\ \E t \in Threads : wexc[t] /\ wpc[t] = "done"
    /\ \E r \in Requests : rpc[r] = "done" /\ rres[r] = "error"
    /\ \E r \in Requests : rpc[r] = "done" /\ rres[r] = "restarted"

\* C14: restart_bot resets bot_running and last_error, sets up and starts a
\* new worker only when the previously registered worker thread is no longer
\* alive; no new worker is started over a worker whose join timed out.
PreviousAlive == bot_thread # None /\ is_alive(bot_thread)

C14_NoStartOverLiveWorker ==
    [][\A r \in Requests :
         (\/ RestartResetRunning(r)
          \/ RestartResetError(r)
          \/ RestartSetup(r)
          \/ RestartStart(r) /\ nthreads' # nthreads) => ~PreviousAlive]_vars

\* the thread is alive and has executed line 152
EnteredRunning(t) == is_alive(t) /\ wpc[t] # "w_set_running"

\* C15: success is reported only after the new worker has confirmed that it
\* entered Running: when restart_bot returns its success result, and when
\* initialize_bot logs a successful start, the thread just started is alive
\* and has set bot_running.
C15_SuccessOnlyWhenRunning ==
    [][/\ \A r \in Requests : RestartReturn(r) => EnteredRunning(rthread[r])
       /\ (InitCheck /\ ires' = "started") => EnteredRunning(bot_thread)]_vars

\* the Application worker t has called run_polling on, None before the call
Polled(t) == wapp[t]

\* C16: the messaging session belongs to one worker generation: a worker
\* calls run_polling on exactly the Application that was built for its start,
\* and no two workers ever call run_polling on the same Application.
C16_SessionOwnedByOneGeneration ==
    /\ \A t \in Threads : Polled(t) # None => Polled(t) = wown[t]
    /\ \A t, u \in Threads :
         (t # u /\ Polled(t) # None /\ Polled(u) # None)
            => Polled(t) # Polled(u)

\* a restart_bot call in flight has executed line 245 on the Application
\* worker t is polling
StopCalledOn(t) ==
    /\ wpc[t] = "w_polling"
    /\ \E r \in Requests : rstop[r] # None /\ rstop[r] = wapp[t]

\* C17: once restart_bot has requested the stop of a running worker, the
\* worker eventually leaves run_polling and its thread terminates, also when
\* the bounded join of the caller gave up first.
C17_StoppedWorkerEventuallyExits ==
    \A t \in Threads : StopCalledOn(t) ~> (wpc[t] = "done")

\* C18: a running worker never shows an error: whenever bot_running is True,
\* last_error is None.
C18_RunningShowsNoError == bot_running => last_error = None

====
